---- MODULE Spec2Model ----
(***************************************************************************)
(* A model of Lib/fontbakery/testrunner.py: the execution-order stub       *)
(* (execute, _analyze_tests, _execute_scopes, _execute_section), the       *)
(* TestRunner engine (_run_tests, _get_test_dependencies, _get_condition)  *)
(* and its result protocol (_check_result, _exec_test).                    *)
(*                                                                         *)
(* The items of a world entry are opaque; the i-th item of an entry is     *)
(* written i.  A binding is a sequence of <<name, item>> pairs.            *)
(***************************************************************************)
EXTENDS Naturals, Sequences, FiniteSets, TLC

VARIABLES
  world,     \* execute's `world`: iterarg name -> sequence of items
  tests,     \* execute's `tests`: a sequence of Test names (one name = one Test object)
  order,     \* execute's `order`
  reverse,   \* execute's `reverse`
  pc,        \* "ready" before the consumer drains execute(...), "done" after
  schedule,  \* the (test, args) pairs execute yielded, in order
  error,     \* the exception that ended execute's generator, or "none"
  previous,  \* <<what the run of execute before the last one gave>>, if there was one
  rtests,    \* _run_tests' `tests`: a sequence of [test, conditions]
  behaviour, \* what each condition predicate does when it is invoked
  cache,     \* self._cache['conditions']: the conditions stored so far
  events,    \* the events _run_tests yielded, in order
  rpc,       \* _run_tests' generator: "ready", "done" (exhausted), "raised"
  rerr,      \* the exception that ended _run_tests' generator, or "none"
  invoked,   \* the condition predicates and test bodies invoked, in order
  lookups,   \* the _get_condition calls made: [condition, raised, err, value] each
  raw,       \* _check_result's `result`: what a test callable handed back
  checked,   \* <<what _check_result returned for `raw`>>, <<>> before the call
  body,      \* _exec_test's `test`: what the callable does when it is called
  results,   \* the results _exec_test yielded, in order
  propagated, \* the exception that ended _exec_test's generator, if any
  finalized  \* <<execute's full_order>>, <<>> before the call

vars == <<world, tests, order, reverse, pc, schedule, error, previous,
          rtests, behaviour, cache, events, rpc, rerr, invoked, lookups,
          raw, checked, body, results, propagated, finalized>>
schedVars == <<world, tests, order, reverse, pc, schedule, error, previous>>
runVars == <<rtests, behaviour, cache, events, rpc, rerr, invoked, lookups>>
protoVars == <<raw, checked, body, results, propagated>>
orderVars == <<finalized>>

\* ------------------------------------------------------------------ bounds
MaxTests == 3    \* tests given to execute
MaxOrder == 3    \* tokens in an order
MaxItems == 2    \* items of a world entry
MaxRun == 2      \* tests given to _run_tests
MaxConds == 2    \* conditions of one test
MaxLookups == 2  \* _get_condition calls in one run
MaxFonts == 2    \* fonts of the engine's run
MaxAgain == 2    \* tests given to an execute that is called twice
MaxGiven == 4    \* tokens in an order as a caller writes it
MaxTuple == 3    \* items of a tuple handed to _check_result
MaxYield == 2    \* results a test's generator yields

\* ------------------------------------------------------------- sequences
Range(s) == {s[i] : i \in 1..Len(s)}

RECURSIVE Reverse(_)
Reverse(s) == IF s = <<>> THEN <<>> ELSE Reverse(Tail(s)) \o <<Head(s)>>

RECURSIVE SeqsUpTo(_, _)
SeqsUpTo(S, n) ==
  IF n = 0 THEN {<<>>}
  ELSE LET shorter == SeqsUpTo(S, n - 1)
       IN shorter \cup {Append(s, x) : s \in {t \in shorter : Len(t) = n - 1}, x \in S}

\* ------------------------------------------------------------ class Test
\* The Test objects of the module's own run (the __main__ block).
TestNames == {"test0", "test1", "test2", "test3", "test4", "test5"}

\* Test.args
TestArgs(t) ==
  CASE t = "test0" -> {"fonts"}
    [] t = "test1" -> {"font", "other"}
    [] t = "test2" -> {"font", "other"}
    [] t = "test3" -> {"font"}
    [] t = "test4" -> {}
    [] t = "test5" -> {"other"}

\* Test.requires
requires(t, arg) == arg \in TestArgs(t)

\* The iterargs of the module's own world, and the tokens an order is made of.
IterArgs == {"font", "other"}
Tokens == IterArgs \cup {"*test"}

\* ------------------------------------------------------------- execute
\* get_all_varargs: not implemented, returns the empty list.
get_all_varargs == <<>>

\* The caller's `order` after a call of execute: line 819 copies the list
\* (stack = order[:]), so the append, the reverse and the pops leave it as it was.
order_after_execute(ord) == ord

\* execute's loop without its test of `seen`: a repeated token is kept.
RECURSIVE full_order_loop_keep_repeats(_, _, _)
full_order_loop_keep_repeats(stack, seen, full_order) ==
  IF Len(stack) = 0 THEN full_order
  ELSE LET item == stack[Len(stack)]
           rest == SubSeq(stack, 1, Len(stack) - 1)
       IN IF item = "*varargs"
          THEN full_order_loop_keep_repeats(rest, seen, full_order)
          ELSE full_order_loop_keep_repeats(rest, seen, Append(full_order, item))

\* execute's loop over `stack` (popped from its end) that builds full_order.
RECURSIVE full_order_loop(_, _, _)
full_order_loop(stack, seen, full_order) ==
  IF Len(stack) = 0 THEN full_order
  ELSE LET item == stack[Len(stack)]
           rest == SubSeq(stack, 1, Len(stack) - 1)
       IN IF item \in seen THEN full_order_loop(rest, seen, full_order)
          ELSE IF item = "*varargs"
               THEN full_order_loop(rest \o Reverse(get_all_varargs),
                                    seen \cup {item}, full_order)
               ELSE full_order_loop(rest, seen \cup {item}, Append(full_order, item))

\* A finalization that moves '*test' to the front of the order.
FullOrder_test_first(ord) ==
  LET stack == IF "*varargs" \in Range(ord) THEN ord ELSE Append(ord, "*varargs")
      fo == full_order_loop(Reverse(stack), {}, <<>>)
  IN IF "*test" \in Range(fo)
     THEN <<"*test">> \o SelectSeq(fo, LAMBDA tok : tok # "*test")
     ELSE fo

\* execute, lines 819-837: the finalized order.
FullOrder(ord) ==
  LET stack == IF "*varargs" \in Range(ord) THEN ord ELSE Append(ord, "*varargs")
  IN full_order_loop(Reverse(stack), {}, <<>>)

\* _analyze_tests: one pass of the while loop over `scopes` for the argument
\* `arg`, with args_set the arguments not yet popped (arg included).
analyze_saturated(item, args_set) == TestArgs(item.test) \cap args_set = {}

analyze_step(item, arg) ==
  IF arg = "*test" \/ requires(item.test, arg)
  THEN [test |-> item.test, signature |-> Append(item.signature, 1),
        scope |-> Append(item.scope, arg)]
  ELSE [test |-> item.test, signature |-> Append(item.signature, 0),
        scope |-> item.scope]

RECURSIVE map_analyze_step(_, _)
map_analyze_step(items, arg) ==
  IF items = <<>> THEN <<>>
  ELSE <<analyze_step(Head(items), arg)>> \o map_analyze_step(Tail(items), arg)

RECURSIVE analyze_loop(_, _, _)
analyze_loop(args, scopes, saturated) ==
  IF args = <<>> THEN saturated \o scopes
  ELSE LET args_set == Range(args)
           arg == Head(args)
           sat == SelectSeq(scopes, LAMBDA it : analyze_saturated(it, args_set))
           rest == SelectSeq(scopes, LAMBDA it : ~analyze_saturated(it, args_set))
       IN analyze_loop(Tail(args), map_analyze_step(rest, arg), saturated \o sat)

_analyze_tests(ts, all_args) ==
  analyze_loop(all_args,
               [i \in 1..Len(ts) |-> [test |-> ts[i], signature |-> <<>>, scope |-> <<>>]],
               <<>>)

\* Python's order on tuples of numbers: a < b.
RECURSIVE tuple_lt(_, _)
tuple_lt(a, b) ==
  IF b = <<>> THEN FALSE
  ELSE IF a = <<>> THEN TRUE
  ELSE IF Head(a) # Head(b) THEN Head(a) < Head(b)
  ELSE tuple_lt(Tail(a), Tail(b))

\* The order of a sort that does not look at `reverse`.
sorts_before_ascending(x, y, rev) == tuple_lt(x.signature, y.signature)

\* x sorts strictly before y under key = signature and `reverse`.
sorts_before(x, y, rev) ==
  IF rev THEN tuple_lt(y.signature, x.signature) ELSE tuple_lt(x.signature, y.signature)

\* The insertion of a sort that is not stable: x goes in front of the elements
\* it is equal to.
RECURSIVE sort_insert_before_equals(_, _, _)
sort_insert_before_equals(sorted, x, rev) ==
  IF sorted = <<>> THEN <<x>>
  ELSE IF ~sorts_before(Head(sorted), x, rev) THEN <<x>> \o sorted
  ELSE <<Head(sorted)>> \o sort_insert_before_equals(Tail(sorted), x, rev)

\* list.sort is stable, also with reverse=True: x goes in front of the first
\* element it sorts strictly before.
RECURSIVE sort_insert(_, _, _)
sort_insert(sorted, x, rev) ==
  IF sorted = <<>> THEN <<x>>
  ELSE IF sorts_before(x, Head(sorted), rev) THEN <<x>> \o sorted
  ELSE <<Head(sorted)>> \o sort_insert(Tail(sorted), x, rev)

RECURSIVE sort_loop(_, _, _)
sort_loop(todo, sorted, rev) ==
  IF todo = <<>> THEN sorted
  ELSE sort_loop(Tail(todo), sort_insert(sorted, Head(todo), rev), rev)

\* An execute that leaves the scopes as _analyze_tests returned them.
sort_skipped(scopes, rev) == scopes

\* scopes.sort(key=key, reverse=reverse) with the default key.
sort(scopes, rev) == sort_loop(scopes, <<>>, rev)

\* ------------------------------------------------------ _execute_scopes
\* What a generator gave the consumer: the items it yielded, and the exception
\* that ended it ("none" when it ran to its end).
Yielded(out) == [out |-> out, err |-> "none"]
Raised(exc) == [out |-> <<>>, err |-> exc]

\* itertools.chain of two generators: the second starts when the first ends.
Chain(r1, r2) ==
  IF r1.err # "none" THEN r1 ELSE [out |-> r1.out \o r2.out, err |-> r2.err]

\* current_section of _execute_scopes: None, (False, None) or (True, gen_arg).
SectionNone == [kind |-> "None", arg |-> "None"]
SectionSkip == [kind |-> "False", arg |-> "None"]
SectionArg(gen_arg) == [kind |-> "True", arg |-> gen_arg]

current_section(item) ==
  IF Len(item.signature) > 0
  THEN IF item.signature[1] = 1 THEN SectionArg(item.scope[1]) ELSE SectionSkip
  ELSE SectionNone

\* The (test, signature, scope) appended to `items`: the head of the signature
\* is consumed, and the head of the scope with it when the signature says 1.
consume_head(item) ==
  IF Len(item.signature) > 0
  THEN [test |-> item.test, signature |-> Tail(item.signature),
        scope |-> IF item.signature[1] = 1 THEN Tail(item.scope) ELSE item.scope]
  ELSE item

\* The for loop of _execute_scopes.  `generators` holds <<section, items>> per
\* _execute_section call; the result is the list of them, or the failed assert.
RECURSIVE scopes_loop(_, _, _, _, _, _)
scopes_loop(scopes, generators, items, cur, last_section, seen) ==
  IF scopes = <<>>
  THEN [generators |-> IF Len(items) > 0 THEN Append(generators, <<cur, items>>)
                       ELSE generators,
        err |-> "none"]
  ELSE LET item == Head(scopes)
           cs == current_section(item)
           flush == cs # last_section /\ Len(items) > 0
       IN IF cs \in seen THEN [generators |-> <<>>, err |-> "AssertionError"]
          ELSE scopes_loop(Tail(scopes),
                 IF flush THEN Append(generators, <<last_section, items>>) ELSE generators,
                 Append(IF flush THEN <<>> ELSE items, consume_head(item)),
                 cs,
                 IF cs # last_section THEN cs ELSE last_section,
                 IF flush THEN seen \cup {last_section} ELSE seen)

\* args + [(gen_arg, arg)] for every yielded (test, args): the entry of the
\* enclosing dimension put last.
RECURSIVE amend_appended(_, _, _)
amend_appended(pairs, gen_arg, arg) ==
  IF pairs = <<>> THEN <<>>
  ELSE <<[test |-> Head(pairs).test, args |-> Append(Head(pairs).args, <<gen_arg, arg>>)]>>
       \o amend_appended(Tail(pairs), gen_arg, arg)

\* [(gen_arg, arg)] + args for every yielded (test, args).
RECURSIVE amend(_, _, _)
amend(pairs, gen_arg, arg) ==
  IF pairs = <<>> THEN <<>>
  ELSE <<[test |-> Head(pairs).test, args |-> <<<<gen_arg, arg>>>> \o Head(pairs).args]>>
       \o amend(Tail(pairs), gen_arg, arg)

RECURSIVE _execute_scopes(_, _)
RECURSIVE _execute_section(_, _, _)
RECURSIVE chain_generators(_, _)
RECURSIVE section_by_test(_, _)
RECURSIVE section_by_arg(_, _, _, _)

\* chain(*generators)
chain_generators(w, generators) ==
  IF generators = <<>> THEN Yielded(<<>>)
  ELSE Chain(_execute_section(w, Head(generators)[1], Head(generators)[2]),
             chain_generators(w, Tail(generators)))

\* _execute_section, section[1] == '*test': one _execute_scopes per item.
section_by_test(w, items) ==
  IF items = <<>> THEN Yielded(<<>>)
  ELSE Chain(_execute_scopes(w, <<Head(items)>>), section_by_test(w, Tail(items)))

\* _execute_section, sectioning by gen_arg: one _execute_scopes per item of `values`.
section_by_arg(w, gen_arg, values, items) ==
  IF values = <<>> THEN Yielded(<<>>)
  ELSE LET sub == _execute_scopes(w, items)
       IN Chain([out |-> amend(sub.out, gen_arg, Head(values)), err |-> sub.err],
                section_by_arg(w, gen_arg, Tail(values), items))

\* _execute_section with the loops of its last branch exchanged: every item is
\* taken through all the items of world[gen_arg] before the next one starts.
RECURSIVE section_items_first(_, _, _, _)
section_items_first(w, gen_arg, values, items) ==
  IF items = <<>> THEN Yielded(<<>>)
  ELSE Chain(section_by_arg(w, gen_arg, values, <<Head(items)>>),
             section_items_first(w, gen_arg, values, Tail(items)))

_execute_section_items_first(w, section, items) ==
  IF section = SectionNone
  THEN Yielded([i \in 1..Len(items) |-> [test |-> items[i].test, args |-> <<>>]])
  ELSE IF section.kind = "False" THEN _execute_scopes(w, items)
  ELSE IF section.arg = "*test" THEN section_by_test(w, items)
  ELSE IF section.arg \notin DOMAIN w THEN Raised("KeyError")
  ELSE section_items_first(w, section.arg, w[section.arg], items)

_execute_section(w, section, items) ==
  IF section = SectionNone
  THEN Yielded([i \in 1..Len(items) |-> [test |-> items[i].test, args |-> <<>>]])
  ELSE IF section.kind = "False" THEN _execute_scopes(w, items)
  ELSE IF section.arg = "*test" THEN section_by_test(w, items)
  ELSE IF section.arg \notin DOMAIN w THEN Raised("KeyError")  \* make_generator: world[k]
  ELSE section_by_arg(w, section.arg, w[section.arg], items)

_execute_scopes(w, scopes) ==
  LET loop == scopes_loop(scopes, <<>>, <<>>, SectionNone, SectionNone, {})
  IN IF loop.err # "none" THEN Raised(loop.err)
     ELSE chain_generators(w, loop.generators)

\* execute(world, tests, order, reverse) with key=None, drained by the consumer.
execute(w, ts, ord, rev) ==
  _execute_scopes(w, sort(_analyze_tests(ts, FullOrder(ord)), rev))

\* ---------------------------------------------------- class TestRunner
\* The conditions and tests handed to a TestRunner.  They come from outside the
\* module; a test carries the names of its conditions.
ConditionNames == {"condA", "condB"}
RunTestNames == {"testA", "testB"}
Behaviours == {"True", "False", "raises"}
\* The fonts of the run: _get_test_dependencies' `for font in fonts`.
RunFonts == 1..MaxFonts

\* A protocol event: a (status, message) tuple; a message is written as a
\* sequence of strings (<<"None">> for None, <<test>> for a test).
Event(status, message) == [status |-> status, message |-> message]
NoResult == Event("None", <<"None">>)

\* What an engine generator gave its consumer: the events it yielded, the
\* exception that ended it, and the callables it invoked on the way.
RunYielded(out) == [out |-> out, err |-> "none", invoked |-> <<>>]
RunRaised(exc) == [out |-> <<>>, err |-> exc, invoked |-> <<>>]

RunChain(r1, r2) ==
  IF r1.err # "none" THEN r1
  ELSE [out |-> r1.out \o r2.out, err |-> r2.err, invoked |-> r1.invoked \o r2.invoked]

\* TestRunner._get_condition, called as self._get_condition(condition): the
\* function is defined with the one parameter `condition`, so the call with
\* self and condition raises TypeError before its body runs; the cache is not
\* read and not written, and no predicate is invoked.
_get_condition(conds, condition) ==
  [raised |-> "TypeError", err |-> "None", value |-> "None",
   cache |-> conds, invoked |-> <<>>]

\* TestRunner._get_test_dependencies(test): the generator's first step runs to
\* `for condition in conditions:` (line 238), where `conditions` is a name of
\* neither the function nor the module: NameError, before anything is yielded.
_get_test_dependencies(test) == RunRaised("NameError")

\* ------------------------------------------------- the result protocol
\* The values a test callable hands back are written as records: a plain value
\* by its type and its text, a tuple or a list by its items.
Value(type, name) == [type |-> type, name |-> name]
Status(name) == Value("Status", name)
PASS == Status("PASS")
FAIL == Status("FAIL")
SKIP == Status("SKIP")
WARN == Status("WARN")
Tuple(items) == [type |-> "tuple", items |-> items]
List(items) == [type |-> "list", items |-> items]
None == Value("NoneType", "None")

\* APIViolationError(message, result): an Exception with the two attributes.
APIViolationError(message, result) ==
  [type |-> "APIViolationError", message |-> message, result |-> result]

\* The classes derived from Exception; KeyboardInterrupt and SystemExit derive
\* from BaseException only.
ExceptionClasses ==
  {"Exception", "APIViolationError", "StopIteration", "ValueError",
   "UnicodeDecodeError"}

\* isinstance(message, Exception)
is_Exception(v) == v.type \in ExceptionClasses

NoException == Value("NoneType", "no exception")
NotRun == Value("NoneType", "not run")

\* The texts of byte strings (type "str") that hold a byte outside ASCII.
NonAscii == {"ÿ"}

\* '{0}'.format(value) of a plain value, in a unicode template: the text, or
\* the exception the conversion raised.  A Status prints as <Status name>
\* (lines 40-41); a byte string with a byte outside ASCII cannot be decoded; an
\* Unprintable is an object whose __str__ raises ValueError.
format(v) ==
  IF v.type = "Status"
  THEN [text |-> "<Status " \o v.name \o ">", raised |-> NoException]
  ELSE IF v.type = "str" /\ v.name \in NonAscii
  THEN [text |-> "", raised |-> Value("UnicodeDecodeError", "ascii")]
  ELSE IF v.type = "Unprintable"
  THEN [text |-> "", raised |-> Value("ValueError", "no text")]
  ELSE [text |-> v.name, raised |-> NoException]

\* A call that an exception left instead of a return value.
Raise(exc) == [type |-> "raised", exc |-> exc]

\* _check_result without lines 117-120: a boolean status is not normalized.
_check_result_unnormalized(result) ==
  IF result.type # "tuple"
  THEN Tuple(<<FAIL, APIViolationError(
         <<"Result must be a tuple but it is", result.type>>, result)>>)
  ELSE IF Len(result.items) # 2
  THEN Tuple(<<FAIL, APIViolationError(
         <<"Result must have 2 items, but it has", ToString(Len(result.items))>>,
         result)>>)
  ELSE LET status == result.items[1]
           message == result.items[2]
       IN IF status.type # "Status"
          THEN IF format(status).raised # NoException
               THEN Raise(format(status).raised)
               ELSE Tuple(<<FAIL, APIViolationError(
                 <<"Result item status must be an instance of Status, but it is",
                   format(status).text, status.type>>, result)>>)
          ELSE IF status = PASS /\ is_Exception(message)
          THEN Tuple(<<FAIL, APIViolationError(
                 <<"Result item status cant be a", format(PASS).text,
                   "since message is an Exception">>, result)>>)
          ELSE result

\* TestRunner._check_result(result), lines 105-132: the tuple it returns, or
\* Raise(e) when formatting the status for the message of line 125 raises e.
_check_result(result) ==
  IF result.type # "tuple"
  THEN Tuple(<<FAIL, APIViolationError(
         <<"Result must be a tuple but it is", result.type>>, result)>>)
  ELSE IF Len(result.items) # 2
  THEN Tuple(<<FAIL, APIViolationError(
         <<"Result must have 2 items, but it has", ToString(Len(result.items))>>,
         result)>>)
  ELSE LET given_status == result.items[1]
           message == result.items[2]
           is_bool == given_status.type = "bool"
           status == IF is_bool
                     THEN (IF given_status.name = "True" THEN PASS ELSE FAIL)
                     ELSE given_status
           normalized == IF is_bool THEN Tuple(<<status, message>>) ELSE result
       IN IF status.type # "Status"
          THEN IF format(status).raised # NoException
               THEN Raise(format(status).raised)
               ELSE Tuple(<<FAIL, APIViolationError(
                 <<"Result item status must be an instance of Status, but it is",
                   format(status).text, status.type>>, normalized)>>)
          ELSE IF status = PASS /\ is_Exception(message)
          THEN Tuple(<<FAIL, APIViolationError(
                 <<"Result item status cant be a", format(PASS).text,
                   "since message is an Exception">>, normalized)>>)
          ELSE normalized

\* What a test callable does when _exec_test calls it: it returns a value
\* (yields = <<value>>), raises (`exc`), or returns a generator that yields the
\* values of `yields` and then ends or raises `exc`.
Callable(kind, yields, exc) == [kind |-> kind, yields |-> yields, exc |-> exc]

\* What _exec_test and _exec_test_generator give their consumer: the results
\* yielded, then the exception that ended the generator, if any.
ExecYielded(out) == [out |-> out, err |-> NoException]

\* TestRunner._exec_test_generator(gen), lines 139-148: the sub results up to
\* the point of error.  A StopIteration raised in the generator ends the loop
\* of line 140 like its normal end; another instance of Exception is caught at
\* line 147 and (FAIL, e) follows; any other exception leaves the generator.
_exec_test_generator(gen) ==
  IF gen.exc = NoException \/ gen.exc.type = "StopIteration"
  THEN ExecYielded(gen.yields)
  ELSE IF is_Exception(gen.exc)
  THEN ExecYielded(gen.yields \o <<Tuple(<<FAIL, gen.exc>>)>>)
  ELSE [out |-> gen.yields, err |-> gen.exc]

\* _exec_test, lines 182-185: each result goes through _check_result and is
\* yielded; an exception that leaves _check_result ends the generator.
RECURSIVE check_each(_)
check_each(sub_results) ==
  IF sub_results = <<>> THEN ExecYielded(<<>>)
  ELSE LET c == _check_result(Head(sub_results))
       IN IF c.type = "raised" THEN [out |-> <<>>, err |-> c.exc]
          ELSE LET rest == check_each(Tail(sub_results))
               IN [out |-> <<c>> \o rest.out, err |-> rest.err]

\* TestRunner._exec_test(test, args, kwds), lines 170-185.  An exception of the
\* call that is no instance of Exception is not caught at line 172.
_exec_test(test) ==
  IF test.kind = "raises" /\ ~is_Exception(test.exc)
  THEN [out |-> <<>>, err |-> test.exc]
  ELSE IF test.kind = "generator"
  THEN LET sub == _exec_test_generator(test)
           validated == check_each(sub.out)
       IN IF validated.err # NoException THEN validated
          ELSE [out |-> validated.out, err |-> sub.err]
  ELSE LET result == IF test.kind = "raises" THEN Tuple(<<FAIL, test.exc>>)
                     ELSE test.yields[1]
       IN check_each(<<result>>)

\* ------------------------------------------------------- TestRunner._run_tests
\* _run_tests, lines 437-452: the frame of one (skipped, args, kwds).  A result
\* in `skipped` is yielded between STARTTEST and ENDTEST.  Otherwise the loop of
\* line 445 iterates _exec_test, which calls the test: for the first result it
\* gives, the loop's `yield result` names nothing (line 446, NameError); when it
\* gives none, an exception that left it ends the frame, and without one the
\* frame is closed by ENDTEST.
run_frame(test, dep) ==
  IF dep.skipped # NoResult
  THEN RunYielded(<<Event("STARTTEST", <<test.test>>), dep.skipped,
                    Event("ENDTEST", <<"None">>)>>)
  ELSE LET sub == _exec_test(test.body)
       IN IF sub.out # <<>>
          THEN [out |-> <<Event("STARTTEST", <<test.test>>)>>, err |-> "NameError",
                invoked |-> <<<<test.test>>>>]
          ELSE IF sub.err # NoException
          THEN [out |-> <<Event("STARTTEST", <<test.test>>)>>, err |-> sub.err.type,
                invoked |-> <<<<test.test>>>>]
          ELSE [out |-> <<Event("STARTTEST", <<test.test>>),
                          Event("ENDTEST", <<"None">>)>>,
                err |-> "none", invoked |-> <<<<test.test>>>>]

RECURSIVE run_frames(_, _)
run_frames(test, deps) ==
  IF deps = <<>> THEN RunYielded(<<>>)
  ELSE RunChain(run_frame(test, Head(deps)), run_frames(test, Tail(deps)))

\* _run_tests, line 433: the frames of one test, then the exception that ended
\* its dependency generator, if any.
run_test(test) ==
  LET deps == _get_test_dependencies(test)
  IN RunChain(run_frames(test, deps.out),
              [out |-> <<>>, err |-> deps.err, invoked |-> deps.invoked])

\* TestRunner._run_tests(tests), drained by the consumer.
RECURSIVE _run_tests(_)
_run_tests(ts) ==
  IF ts = <<>> THEN RunYielded(<<>>)
  ELSE RunChain(run_test(Head(ts)), _run_tests(Tail(ts)))

\* ------------------------------------------------------------ behaviour
\* A world entry of n items.
Items(n) == [i \in 1..n |-> i]

\* An iterarg is missing from the world, or its entry is empty, or it has items.
Worlds ==
  UNION {[S -> {Items(0), Items(MaxItems)}] : S \in SUBSET IterArgs}

\* Orders without repeated tokens: the orders execute finalizes to themselves.
Orders ==
  {s \in SeqsUpTo(Tokens, MaxOrder) : \A i, j \in 1..Len(s) : s[i] = s[j] => i = j}

NoRun ==
  /\ rtests = <<>>
  /\ behaviour = <<>>
  /\ cache = {}
  /\ events = <<>>
  /\ rpc = "ready"
  /\ rerr = "none"
  /\ invoked = <<>>
  /\ lookups = <<>>

\* No result is being checked and no test callable is being executed.
NoProto ==
  /\ raw = <<>>
  /\ checked = <<>>
  /\ body = <<>>
  /\ results = <<>>
  /\ propagated = NotRun

\* execute has not finalized an order.
NoOrder == finalized = <<>>

Init ==
  /\ world \in Worlds
  /\ tests \in SeqsUpTo(TestNames, MaxTests)
  /\ order \in Orders
  /\ reverse \in BOOLEAN
  /\ pc = "ready"
  /\ schedule = <<>>
  /\ error = "none"
  /\ previous = <<>>
  /\ NoRun
  /\ NoProto
  /\ NoOrder

\* The consumer iterates execute(world, tests, order, reverse) to its end.
Execute ==
  /\ pc = "ready"
  /\ LET r == execute(world, tests, order, reverse)
     IN /\ schedule' = r.out
        /\ error' = r.err
  /\ finalized' = <<FullOrder(order)>>
  /\ order' = order_after_execute(order)
  /\ pc' = "done"
  /\ UNCHANGED <<world, tests, reverse, previous>>
  /\ UNCHANGED <<runVars, protoVars>>

Next == Execute

Spec == Init /\ [][Next]_vars

\* Orders as a caller may write them: '*varargs' anywhere, tokens repeated.
GivenOrders == SeqsUpTo(Tokens \cup {"*varargs"}, MaxGiven)

InitOrder ==
  /\ world \in Worlds
  /\ tests \in {<<>>} \cup {<<t>> : t \in TestNames}
  /\ order \in GivenOrders
  /\ reverse \in BOOLEAN
  /\ pc = "ready"
  /\ schedule = <<>>
  /\ error = "none"
  /\ previous = <<>>
  /\ NoRun
  /\ NoProto
  /\ NoOrder

SpecOrder == InitOrder /\ [][Next]_vars

InitAgain ==
  /\ world \in Worlds
  /\ tests \in SeqsUpTo(TestNames, MaxAgain)
  /\ order \in Orders
  /\ reverse \in BOOLEAN
  /\ pc = "ready"
  /\ schedule = <<>>
  /\ error = "none"
  /\ previous = <<>>
  /\ NoRun
  /\ NoProto
  /\ NoOrder

\* The consumer calls execute a second time with the objects it passed to the
\* first call, and iterates it to its end.
ExecuteAgain ==
  /\ pc = "done"
  /\ LET r == execute(world, tests, order, reverse)
     IN /\ schedule' = r.out
        /\ error' = r.err
  /\ previous' = <<[out |-> schedule, err |-> error]>>
  /\ finalized' = <<FullOrder(order)>>
  /\ order' = order_after_execute(order)
  /\ pc' = "again"
  /\ UNCHANGED <<world, tests, reverse>>
  /\ UNCHANGED <<runVars, protoVars>>

NextAgain == Execute \/ ExecuteAgain

SpecAgain == InitAgain /\ [][NextAgain]_vars

\* ------------------------------------------------- the engine's behaviour
\* TestRunner.__init__ is defined without `self`, so TestRunner(tests, conditions)
\* raises TypeError; a run starts from an instance made without it, whose cache
\* is the empty one of lines 89-91.
NoSchedule ==
  /\ world = <<>>
  /\ tests = <<>>
  /\ order = <<>>
  /\ reverse = FALSE
  /\ pc = "done"
  /\ schedule = <<>>
  /\ error = "none"
  /\ previous = <<>>

\* The test callables of a run: one that returns a result, a generator that
\* yields nothing, and one that raises an exception no `except Exception` takes.
RunBodies ==
  {Callable("returns", <<Tuple(<<PASS, Value("unicode", "ok")>>)>>, NoException),
   Callable("generator", <<>>, NoException),
   Callable("raises", <<>>, Value("KeyboardInterrupt", "stop"))}

RunTests ==
  {[test |-> t, conditions |-> cs, body |-> b] :
     t \in RunTestNames, cs \in SeqsUpTo(ConditionNames, MaxConds), b \in RunBodies}

InitRun ==
  /\ NoSchedule
  /\ NoProto
  /\ NoOrder
  /\ rtests \in SeqsUpTo(RunTests, MaxRun)
  /\ behaviour \in [ConditionNames \X RunFonts -> Behaviours]
  /\ cache = {}
  /\ events = <<>>
  /\ rpc = "ready"
  /\ rerr = "none"
  /\ invoked = <<>>
  /\ lookups = <<>>

\* The consumer iterates self._run_tests(tests) until the generator ends.
RunAll ==
  /\ rpc = "ready"
  /\ LET r == _run_tests(rtests)
     IN /\ events' = r.out
        /\ rerr' = r.err
        /\ rpc' = IF r.err = "none" THEN "done" ELSE "raised"
        /\ invoked' = invoked \o r.invoked
  /\ UNCHANGED <<rtests, behaviour, cache, lookups>>
  /\ UNCHANGED <<schedVars, protoVars, orderVars>>

\* A caller looks a condition up: self._get_condition(condition).
GetCondition(condition) ==
  /\ Len(lookups) < MaxLookups
  /\ LET r == _get_condition(cache, condition)
     IN /\ cache' = r.cache
        /\ invoked' = invoked \o r.invoked
        /\ lookups' = Append(lookups,
             [condition |-> condition, raised |-> r.raised,
              err |-> r.err, value |-> r.value])
  /\ UNCHANGED <<rtests, behaviour, events, rpc, rerr>>
  /\ UNCHANGED <<schedVars, protoVars, orderVars>>

NextRun ==
  \/ RunAll
  \/ \E c \in ConditionNames : GetCondition(c)

SpecRun == InitRun /\ [][NextRun]_vars

\* The run of a consumer that keeps pulling events from _run_tests.
SpecRunPulled == SpecRun /\ WF_vars(RunAll)

\* ------------------------------------------- the protocol's behaviour
\* The values a test callable may put into a result.
True == Value("bool", "True")
False == Value("bool", "False")
Values ==
  {True, False, PASS, FAIL, SKIP, WARN, None,
   Value("unicode", "ok"), Value("int", "1"), Value("Exception", "boom"),
   Value("str", "ÿ"), Value("Unprintable", "Unprintable")}

\* The raw results handed to _check_result: values that are no tuple, and the
\* tuples of up to MaxTuple values.
RawResults ==
  {None, PASS, Value("unicode", "ok"), List(<<PASS, Value("unicode", "ok")>>)}
    \cup {Tuple(items) : items \in SeqsUpTo(Values, MaxTuple)}

InitCheck ==
  /\ NoSchedule
  /\ NoRun
  /\ NoOrder
  /\ raw \in RawResults
  /\ checked = <<>>
  /\ body = <<>>
  /\ results = <<>>
  /\ propagated = NotRun

\* A caller validates a raw result: self._check_result(result).
CheckResult ==
  /\ checked = <<>>
  /\ checked' = <<_check_result(raw)>>
  /\ UNCHANGED <<raw, body, results, propagated>>
  /\ UNCHANGED <<schedVars, runVars, orderVars>>

NextCheck == CheckResult

SpecCheck == InitCheck /\ [][NextCheck]_vars

\* The exceptions a test callable raises.
Exceptions ==
  {Value("Exception", "boom"), Value("StopIteration", "stop"),
   Value("KeyboardInterrupt", "stop")}

\* The raw results a test callable produces.
BodyResults ==
  {Tuple(<<PASS, Value("unicode", "ok")>>), Tuple(<<True, Value("unicode", "ok")>>),
   Tuple(<<PASS, Value("Exception", "boom")>>), Tuple(<<FAIL, Value("Exception", "boom")>>),
   Tuple(<<Value("int", "1"), Value("int", "1"), Value("int", "1")>>),
   Tuple(<<Value("unicode", "PASS"), Value("unicode", "ok")>>),
   Tuple(<<Value("Unprintable", "Unprintable"), Value("unicode", "ok")>>), None}

Callables ==
  {Callable("returns", <<r>>, NoException) : r \in BodyResults}
    \cup {Callable("raises", <<>>, e) : e \in Exceptions}
    \cup {Callable("generator", ys, e) :
            ys \in SeqsUpTo(BodyResults, MaxYield), e \in Exceptions \cup {NoException}}

InitExec ==
  /\ NoSchedule
  /\ NoRun
  /\ NoOrder
  /\ raw = <<>>
  /\ checked = <<>>
  /\ body \in Callables
  /\ results = <<>>
  /\ propagated = NotRun

\* The consumer iterates self._exec_test(test, args, kwds) to its end.
ExecTest ==
  /\ propagated = NotRun
  /\ LET r == _exec_test(body)
     IN /\ results' = r.out
        /\ propagated' = r.err
  /\ UNCHANGED <<raw, checked, body>>
  /\ UNCHANGED <<schedVars, runVars, orderVars>>

NextExec == ExecTest

SpecExec == InitExec /\ [][NextExec]_vars

\* ===================================================== the scheduler's claims
Positions == 1..Len(schedule)

\* The pair at position p binds iterarg d to the i-th item of world[d].
Bound(p, d, i) == \E k \in 1..Len(schedule[p].args) : schedule[p].args[k] = <<d, i>>

\* The pairs yielded for test t, in order.
PairsOf(sched, t) == SelectSeq(sched, LAMBDA e : e.test = t)

\* The singular iterated dimensions test t requires.
RequiredIterArgs(t) == TestArgs(t) \cap IterArgs

RECURSIVE ProductOfSizes(_, _)
ProductOfSizes(w, D) ==
  IF D = {} THEN 1
  ELSE LET d == CHOOSE x \in D : TRUE
       IN Len(w[d]) * ProductOfSizes(w, D \ {d})

\* Test t stands once in the list given to execute.
DeclaredOnce(t) == Cardinality({i \in 1..Len(tests) : tests[i] = t}) = 1

\* C3 (as claimed): for every test requiring the set D of singular iterated
\* dimensions, execute yields exactly the product over D of the sizes of the
\* world's entries pairs for that test, each with a distinct binding, whatever
\* the order, also when the order does not name every dimension of D.  Stated
\* for the runs that end without an exception and the tests declared once: it
\* fails there already.
C3_ProductOfSizes ==
  (pc = "done" /\ error = "none") =>
    \A t \in Range(tests) :
      (DeclaredOnce(t) /\ RequiredIterArgs(t) \subseteq DOMAIN world) =>
        LET mine == PairsOf(schedule, t)
        IN /\ Len(mine) = ProductOfSizes(world, RequiredIterArgs(t))
           /\ \A i, j \in 1..Len(mine) : mine[i].args = mine[j].args => i = j

\* C4 (as claimed): the schedule holds each (test, binding) pair exactly once,
\* for any list of tests, a list that declares the same test twice included.
C4_EachPairOnce ==
  pc = "done" =>
    \A p, q \in Positions : schedule[p] = schedule[q] => p = q

\* C5: when the first token of the order is a singular dimension d, every pair
\* bound to the i-th item of d precedes every pair bound to the (i+1)-th item.
C5_FirstDimensionClusters ==
  (pc = "done" /\ order # <<>> /\ order[1] \in IterArgs) =>
    \A p, q \in Positions :
      \A i \in 1..MaxItems :
        (Bound(p, order[1], i) /\ Bound(q, order[1], i + 1)) => p < q

\* C5's case: an order whose first token is font and that also holds *test,
\* two different tests bound to font, and a pair of the later test on item 1
\* standing before a pair of the earlier test on item 2.
C5_Witness ==
  /\ pc = "done"
  /\ error = "none"
  /\ Len(order) > 1
  /\ order[1] = "font"
  /\ "*test" \in Range(order)
  /\ \E p, q, r \in Positions :
       /\ p < q /\ q < r
       /\ schedule[p].test # schedule[q].test
       /\ schedule[p].test = schedule[r].test
       /\ Bound(p, "font", 1) /\ Bound(q, "font", 1) /\ Bound(r, "font", 2)

\* The finalized order of the run, and what stands before *test in it.
TestTokenAt(fo) == CHOOSE k \in 1..Len(fo) : fo[k] = "*test"
BeforeTestToken(fo) == {fo[i] : i \in 1..(TestTokenAt(fo) - 1)}

\* The part of a binding that binds the names in `names`.
Restrict(args, names) == SelectSeq(args, LAMBDA a : a[1] \in names)

\* The order with the *test token taken out.
WithoutTestToken(ord) == SelectSeq(ord, LAMBDA tok : tok # "*test")

\* C6 (as claimed): at a *test token, all pairs of one test that share the
\* binding accumulated before the token are contiguous in the schedule, and
\* they stand in the relative order in which the same run without the *test
\* token yields them.
C6_TestClusters ==
  (pc = "done" /\ error = "none" /\ "*test" \in Range(FullOrder(order))) =>
    LET before == BeforeTestToken(FullOrder(order))
        after == Range(FullOrder(order)) \ (before \cup {"*test"})
        same(e, f) == e.test = f.test
                      /\ TestArgs(e.test) \cap after # {}
                      /\ Restrict(e.args, before) = Restrict(f.args, before)
        other == execute(world, tests, WithoutTestToken(order), reverse).out
    IN /\ \A p, q \in Positions :
            (p < q /\ same(schedule[p], schedule[q])) =>
              \A r \in p..q : same(schedule[r], schedule[p])
       /\ \A p \in Positions :
            SelectSeq(schedule, LAMBDA e : same(e, schedule[p]))
              = SelectSeq(other, LAMBDA e : same(e, schedule[p]))
\* C6 holds of the lists that declare no test twice.
C6_DeclaredOnce ==
  (\A t \in Range(tests) : DeclaredOnce(t)) => C6_TestClusters

\* The level at which test t is saturated: the place in the finalized order fo
\* of the last token t requires, 0 when it requires none.
SaturationLevel(fo, t) ==
  LET ks == {k \in 1..Len(fo) : fo[k] \in TestArgs(t)}
  IN IF ks = {} THEN 0 ELSE CHOOSE k \in ks : \A j \in ks : j <= k

\* The tokens of fo that test t requires, in fo's order.
RequiredTokens(fo, t) == SelectSeq(fo, LAMBDA tok : tok \in TestArgs(t))

\* The names a binding binds, in its order.
BoundNames(args) == [k \in 1..Len(args) |-> args[k][1]]

\* The bindings and the order C7 claims: a pair binds exactly the tokens its
\* test requires, in the order of the finalized order, and a test saturated at
\* level k stands before every test expanded over the dimension at level k + 1
\* that shares its binding.
C7_SaturatedBeforeExpanded ==
  (pc = "done" /\ ~reverse) =>
    LET fo == FullOrder(order)
    IN /\ \A p \in Positions :
            BoundNames(schedule[p].args) = RequiredTokens(fo, schedule[p].test)
       /\ \A p, q \in Positions :
            LET t == schedule[p].test
                u == schedule[q].test
                k == SaturationLevel(fo, t)
                upto == {fo[i] : i \in 1..k}
            IN (/\ k < Len(fo)
                /\ fo[k + 1] \in IterArgs \cap TestArgs(u)
                /\ TestArgs(t) \cap upto = TestArgs(u) \cap upto
                /\ Restrict(schedule[q].args, upto) = schedule[p].args) => p < q
       /\ (tests = <<"test0", "test3", "test4">> /\ order = <<"font">>
            /\ "font" \in DOMAIN world) =>
            schedule = <<[test |-> "test0", args |-> <<>>],
                         [test |-> "test4", args |-> <<>>]>>
                       \o [i \in 1..Len(world["font"]) |->
                             [test |-> "test3", args |-> <<<<"font", world["font"][i]>>>>]]

\* C7 (as claimed): with generic-first, at every level the saturated tests are
\* emitted once, with the binding accumulated so far, before any test expanded
\* over the current dimension; tests {test0(fonts), test3(font), test4()} under
\* order ['font'] give test0([]), test4([]), then test3 once per font.
C7_SaturatedOnceFirst ==
  (pc = "done" /\ ~reverse) =>
    /\ C7_SaturatedBeforeExpanded
    /\ \A p, q \in Positions : schedule[p] = schedule[q] => p = q
    /\ \A t \in Range(tests) :
         SaturationLevel(FullOrder(order), t) = 0 =>
           \E p \in Positions : schedule[p].test = t

\* The dimensions a test requires whose source is missing from the world or empty.
Unresolved(w, t) ==
  {d \in RequiredIterArgs(t) : d \notin DOMAIN w \/ w[d] = <<>>}

\* C16 (as claimed): scheduling does not raise, and a test that requires a
\* dimension whose source is empty or missing from world is still scheduled,
\* with that dimension left out of its bindings; exactly once when every
\* dimension it requires is such a one.
C16_UnresolvedStillScheduled ==
  pc = "done" =>
    /\ error = "none"
    /\ \A t \in Range(tests) :
         (DeclaredOnce(t) /\ Unresolved(world, t) # {}) =>
           /\ PairsOf(schedule, t) # <<>>
           /\ \A p \in Positions :
                schedule[p].test = t =>
                  Range(BoundNames(schedule[p].args)) \cap Unresolved(world, t) = {}
           /\ Unresolved(world, t) = RequiredIterArgs(t)
                => Len(PairsOf(schedule, t)) = 1

\* C17 (as claimed): every singular dimension some test requires occurs in the
\* finalized order, the ones the caller did not name standing where '*varargs'
\* stands, and the test is expanded once per value of such a dimension.
C17_UnnamedDimensionsInserted ==
  pc = "done" =>
    \A t \in Range(tests) :
      \A d \in RequiredIterArgs(t) :
        /\ d \in Range(FullOrder(order))
        /\ (error = "none" /\ d \in DOMAIN world) =>
             \A i \in 1..Len(world[d]) :
               \E p \in Positions : schedule[p].test = t /\ Bound(p, d, i)

\* The places of a token in a sequence.
PlacesOf(s, tok) == {i \in 1..Len(s) : s[i] = tok}
FirstPlace(s, tok) == CHOOSE i \in PlacesOf(s, tok) : \A j \in PlacesOf(s, tok) : i <= j

\* C18: the finalized order holds each token of the supplied order (other than
\* the placeholder '*varargs') exactly once, in the order of the tokens' first
\* occurrences, and an order without '*varargs' is finalized and scheduled as
\* the same order with '*varargs' appended.
C18_OrderFinalized ==
  pc = "done" =>
    LET named == Range(order) \ {"*varargs"}
        fo == finalized[1]
    IN /\ \A tok \in named : Cardinality(PlacesOf(fo, tok)) = 1
       /\ \A a, b \in named :
            FirstPlace(order, a) < FirstPlace(order, b)
              => FirstPlace(fo, a) < FirstPlace(fo, b)
       /\ "*varargs" \notin Range(order) =>
            /\ fo = FullOrder(Append(order, "*varargs"))
            /\ execute(world, tests, Append(order, "*varargs"), reverse)
                 = [out |-> schedule, err |-> error]

\* An order with a repeated token and '*varargs' in its middle has been finalized.
C18_Witness ==
  /\ pc = "done"
  /\ Len(order) = MaxGiven
  /\ order[1] = order[MaxGiven]
  /\ order[1] # "*varargs"
  /\ order[2] = "*varargs"
  /\ Cardinality(Range(order)) = MaxGiven - 1
  /\ Len(finalized[1]) = MaxGiven - 2

\* The test requires the plural name `fonts` and not the singular `font`.
RequiresOnlyPlural(t) == requires(t, "fonts") /\ ~requires(t, "font")

\* C19 (as claimed): a test that requires only the plural name of a dimension
\* is scheduled exactly once, with no binding for the dimension, whatever the
\* size of the dimension's source and wherever the singular name stands in the
\* order.
C19_PluralOnlySaturated ==
  pc = "done" =>
    \A t \in Range(tests) :
      RequiresOnlyPlural(t) =>
        /\ Len(PairsOf(schedule, t)) = 1
        /\ \A p \in Positions :
             schedule[p].test = t => "font" \notin Range(BoundNames(schedule[p].args))

\* The same for a test declared once, in a run that no exception ended.
C19_DeclaredOnce ==
  (pc = "done" /\ error = "none") =>
    \A t \in Range(tests) :
      (RequiresOnlyPlural(t) /\ DeclaredOnce(t)) =>
        PairsOf(schedule, t) = <<[test |-> t, args |-> <<>>]>>

\* Pair q is of a test expanded over the token after level k, pair p of a test
\* that does not require that token, the two tests require the same tokens up
\* to level k, and the two pairs share the binding of those tokens.
ExpandedBesideGeneric(fo, k, q, p) ==
  LET t == schedule[p].test
      u == schedule[q].test
      upto == {fo[i] : i \in 1..k}
  IN /\ fo[k + 1] \in IterArgs \cap TestArgs(u)
     /\ fo[k + 1] \notin TestArgs(t)
     /\ TestArgs(t) \cap upto = TestArgs(u) \cap upto
     /\ Restrict(schedule[q].args, upto) = Restrict(schedule[p].args, upto)

\* C21: with reverse=True, at every nesting level and under every binding of
\* the enclosing dimensions, the pairs of the tests expanded over the current
\* dimension stand before the pairs of the tests that do not require it.
C21_SpecificFirst ==
  (pc # "ready" /\ reverse) =>
    LET fo == FullOrder(order)
    IN \A k \in 0..(Len(fo) - 1) :
         fo[k + 1] \in IterArgs =>
           \A q \in {i \in Positions : fo[k + 1] \in TestArgs(schedule[i].test)} :
             \A p \in {i \in Positions : fo[k + 1] \notin TestArgs(schedule[i].test)} :
               ExpandedBesideGeneric(fo, k, q, p) => q < p

\* A reversed run has emitted, under one font, a test expanded over the second
\* dimension and then a test saturated at the first.
C21_Witness ==
  /\ pc = "done"
  /\ reverse
  /\ error = "none"
  /\ Len(FullOrder(order)) >= 2
  /\ \E p, q \in Positions :
       /\ q < p
       /\ ExpandedBesideGeneric(FullOrder(order), 1, q, p)
       /\ Len(schedule[q].args) = 2
       /\ Len(schedule[p].args) = 1

\* The signature _analyze_tests gives a test under the finalized order fo.
SignatureOf(fo, t) == _analyze_tests(<<t>>, fo)[1].signature

\* The tests of a sequence of pairs, in its order.
TestsOf(pairs) == [i \in 1..Len(pairs) |-> pairs[i].test]

\* C22: under each binding, the tests of one signature stand in the order of
\* their declaration, for either value of reverse.
C22_DeclarationOrderKept ==
  pc # "ready" =>
    LET fo == FullOrder(order)
        sigs == [t \in Range(tests) |-> SignatureOf(fo, t)]
    IN \A sig \in {sigs[t] : t \in Range(tests)} :
         \A b \in {schedule[p].args : p \in Positions} :
           LET found == SelectSeq(schedule, LAMBDA e : e.args = b /\ sigs[e.test] = sig)
           IN found # <<>> => TestsOf(found) = SelectSeq(tests, LAMBDA t : sigs[t] = sig)

\* A reversed run has scheduled test2 before test1, as they were declared, under
\* each of several bindings.
C22_Witness ==
  /\ pc = "done"
  /\ reverse
  /\ error = "none"
  /\ tests = <<"test2", "test1">>
  /\ Len(schedule) >= 4
  /\ schedule[1].test = "test2"
  /\ schedule[1].args # <<>>
  /\ schedule[2] = [test |-> "test1", args |-> schedule[1].args]

\* C24: for an order without '*test', execute yields the pairs, and ends the
\* way, of execute with '*test' appended to the order.
C24_TestTokenImplied ==
  (pc # "ready" /\ "*test" \notin Range(order)) =>
    execute(world, tests, Append(order, "*test"), reverse)
      = [out |-> schedule, err |-> error]

\* An order without '*test' has scheduled two tests over the items of a
\* dimension, interleaved.
C24_Witness ==
  /\ pc # "ready"
  /\ "*test" \notin Range(order)
  /\ order # <<>>
  /\ error = "none"
  /\ Len(schedule) >= 4
  /\ schedule[1].test # schedule[2].test
  /\ schedule[1].args = schedule[2].args
  /\ schedule[3].test = schedule[1].test

\* C25: the binding of every scheduled pair has exactly one entry for each
\* singular dimension that its test requires and that stands in the finalized
\* order, the entries stand in the order of the finalized order's tokens, each
\* value is an item of the dimension's source, and there is no entry for any
\* other name nor for '*test'.
C25_BindingShape ==
  pc # "ready" =>
    LET fo == FullOrder(order)
    IN \A p \in Positions :
         LET args == schedule[p].args
             t == schedule[p].test
         IN /\ BoundNames(args) = SelectSeq(fo, LAMBDA tok : tok \in RequiredIterArgs(t))
            /\ \A k \in 1..Len(args) : args[k][2] \in Range(world[args[k][1]])
            /\ \A k \in 1..Len(args) : args[k][1] \in IterArgs

\* A pair bound to an item of `other` and then to a font, as the order names
\* them, stands in a schedule that also holds a saturated test.
C25_Witness ==
  /\ pc # "ready"
  /\ Len(order) >= 2
  /\ order[1] = "other"
  /\ \E p \in Positions : BoundNames(schedule[p].args) = <<"other", "font">>
  /\ \E p \in Positions : schedule[p].args = <<>>

\* C26: with the default key and either value of reverse the assertion of
\* _execute_scopes fails at no level, and every scope holds one token for each
\* 1 of its signature, so scope[0] exists wherever signature[0] is 1.
C26_ScopesWellSorted ==
  pc # "ready" =>
    /\ error # "AssertionError"
    /\ \A it \in Range(_analyze_tests(tests, FullOrder(order))) :
         Len(SelectSeq(it.signature, LAMBDA b : b = 1)) = Len(it.scope)

\* A run has walked scopes of all three section kinds: a saturated test, a test
\* that skips the first dimension and a test expanded over it.
C26_Witness ==
  /\ pc # "ready"
  /\ error = "none"
  /\ Len(FullOrder(order)) >= 2
  /\ FullOrder(order)[1] \in IterArgs
  /\ \E p, q, r \in Positions :
       /\ TestArgs(schedule[p].test) \cap Range(FullOrder(order)) = {}
       /\ FullOrder(order)[1] \notin TestArgs(schedule[q].test)
       /\ Len(schedule[q].args) = 1
       /\ FullOrder(order)[1] \in TestArgs(schedule[r].test)
       /\ Len(schedule[r].args) = 2

\* How often a pair stands in a sequence of pairs.
CountOf(pairs, e) == Cardinality({i \in 1..Len(pairs) : pairs[i] = e})

\* Two sequences of pairs hold the same pairs, each as often.
SameMultiset(a, b) ==
  /\ Len(a) = Len(b)
  /\ \A e \in Range(a) : CountOf(a, e) = CountOf(b, e)

\* C27 (as claimed): for any tests, world and order, execute with the other
\* value of reverse emits the same multiset of pairs.
C27_ReverseSameMultiset ==
  pc # "ready" =>
    SameMultiset(schedule, execute(world, tests, order, ~reverse).out)

\* The same for runs that no exception ends.
C27_NoException ==
  (pc # "ready" /\ error = "none") =>
    LET other == execute(world, tests, order, ~reverse)
    IN other.err = "none" /\ SameMultiset(schedule, other.out)

\* ======================================================= the engine's claims
\* The pairs a run is to execute: every test of the list under every font.
ScheduledPairs ==
  [k \in 1..(Len(rtests) * MaxFonts) |->
     [test |-> rtests[((k - 1) \div MaxFonts) + 1], font |-> ((k - 1) % MaxFonts) + 1]]

\* The places of the STARTTEST events, in order.
FrameStarts ==
  SelectSeq([i \in 1..Len(events) |-> i], LAMBDA i : events[i].status = "STARTTEST")

\* The events after the k-th STARTTEST, up to the next frame event.
FrameResults(k) ==
  LET a == FrameStarts[k]
      stops == {j \in (a + 1)..Len(events) : events[j].status \in {"STARTTEST", "ENDTEST"}}
      b == IF stops = {} THEN Len(events) + 1
           ELSE CHOOSE j \in stops : \A x \in stops : j <= x
  IN SubSeq(events, a + 1, b - 1)

\* The k-th frame is closed by an ENDTEST before the next STARTTEST.
FrameClosed(k) ==
  LET a == FrameStarts[k]
      b == a + Len(FrameResults(k)) + 1
  IN b <= Len(events) /\ events[b].status = "ENDTEST"

\* C1: every STARTTEST is followed by exactly one ENDTEST before the next
\* STARTTEST, with only result events between the two.
C1_FramesPaired ==
  /\ \A k \in 1..Len(FrameStarts) : FrameClosed(k)
  /\ Len(SelectSeq(events, LAMBDA e : e.status = "ENDTEST")) = Len(FrameStarts)
  /\ Len(events) > 0 => events[1].status = "STARTTEST"

\* C2 (as claimed): a finished run has emitted exactly one STARTTEST...ENDTEST
\* frame for each scheduled pair, in the pairs' order.
C2_OneFramePerPair ==
  rpc # "ready" =>
    /\ Len(FrameStarts) = Len(ScheduledPairs)
    /\ \A k \in 1..Len(FrameStarts) :
         /\ events[FrameStarts[k]].message = <<ScheduledPairs[k].test.test>>
         /\ FrameClosed(k)

\* The conditions of a pair's test that behave as `how` under the pair's font.
ConditionsThat(pair, how) ==
  SelectSeq(pair.test.conditions, LAMBDA c : behaviour[<<c, pair.font>>] = how)

\* C8 (as claimed): a predicate is invoked at most once per condition and
\* sub-binding, and every lookup returns the outcome stored for its key, a
\* repeat lookup the same outcome as the first.
C8_LookupsMemoized ==
  /\ \A i, j \in 1..Len(invoked) : invoked[i] = invoked[j] => i = j
  /\ \A i \in 1..Len(lookups) :
       /\ lookups[i].raised = "none"
       /\ lookups[i].condition \in cache
       /\ \A j \in 1..i :
            lookups[j].condition = lookups[i].condition =>
              (lookups[j].err = lookups[i].err /\ lookups[j].value = lookups[i].value)

\* C9 (as claimed): a test is resolved under each binding by its conditions'
\* outcomes on that binding's font: where a condition is false for one font and
\* all conditions are true for another, the run skips the test for the first
\* font and does not skip it for the second.
C9_ResolvedPerBinding ==
  rpc # "ready" =>
    \A k, m \in 1..Len(ScheduledPairs) :
      (/\ ScheduledPairs[k].test = ScheduledPairs[m].test
       /\ ConditionsThat(ScheduledPairs[k], "raises") = <<>>
       /\ ConditionsThat(ScheduledPairs[k], "False") # <<>>
       /\ ConditionsThat(ScheduledPairs[m], "True") = ScheduledPairs[m].test.conditions) =>
        /\ k <= Len(FrameStarts) /\ m <= Len(FrameStarts)
        /\ \E e \in Range(FrameResults(k)) : e.status = "SKIP"
        /\ \A e \in Range(FrameResults(m)) : e.status # "SKIP"

\* C10 (as claimed): a pair whose test has a condition that raises gets exactly
\* one result, (FAIL, FailedConditionError naming the failing conditions), and
\* its test body is not invoked.
C10_FailedConditions ==
  rpc # "ready" =>
    \A k \in 1..Len(ScheduledPairs) :
      LET failing == ConditionsThat(ScheduledPairs[k], "raises")
      IN failing # <<>> =>
           /\ k <= Len(FrameStarts)
           /\ FrameResults(k) = <<Event("FAIL", <<"FailedConditionError">> \o failing)>>
           /\ (\A m \in 1..Len(ScheduledPairs) :
                 ScheduledPairs[m].test.test = ScheduledPairs[k].test.test
                   => ConditionsThat(ScheduledPairs[m], "raises") # <<>>)
              => <<ScheduledPairs[k].test.test>> \notin Range(invoked)

\* C11 (as claimed): a pair whose test has no condition that raises and at least
\* one condition that is false gets exactly one result, (SKIP, naming every
\* unmet condition of the test), and its test body is not invoked.
C11_UnmetConditions ==
  rpc # "ready" =>
    \A k \in 1..Len(ScheduledPairs) :
      LET unmet == ConditionsThat(ScheduledPairs[k], "False")
      IN (ConditionsThat(ScheduledPairs[k], "raises") = <<>> /\ unmet # <<>>) =>
           /\ k <= Len(FrameStarts)
           /\ FrameResults(k) = <<Event("SKIP", <<"Unfullfilled Conditions">> \o unmet)>>
           /\ (\A m \in 1..Len(ScheduledPairs) :
                 ScheduledPairs[m].test.test = ScheduledPairs[k].test.test
                   => ConditionsThat(ScheduledPairs[m], "True")
                        # ScheduledPairs[m].test.conditions)
              => <<ScheduledPairs[k].test.test>> \notin Range(invoked)

\* C13 (as claimed): when the consumer keeps pulling events, the run comes to
\* its end with the frame of every scheduled pair opened and closed, and no
\* exception reaches the consumer.
C13_EveryPairFramed ==
  <>(/\ rpc = "done"
     /\ rerr = "none"
     /\ \A k \in 1..Len(ScheduledPairs) : k <= Len(FrameStarts) /\ FrameClosed(k))

\* C23: no step of a run removes an entry from the condition cache.  (No step
\* writes one either: every lookup raises before it reaches the cache.)
C23_CacheOnlyGrows == [][cache \subseteq cache']_vars

\* A lookup has written an entry to the cache.
C23_EntryWritten == cache # {}

\* ===================================================== the protocol's claims
\* C12 (as claimed): when a test body raises an exception e, at its call or
\* after some yielded results, _exec_test yields the validated results produced
\* before the exception, then exactly one (FAIL, e) as its last result, and its
\* generator ends without an exception.
C12_BodyExceptionBecomesFail ==
  (propagated # NotRun /\ body.exc # NoException) =>
    /\ propagated = NoException
    /\ results = [i \in 1..Len(body.yields) |-> _check_result(body.yields[i])]
                   \o <<Tuple(<<FAIL, body.exc>>)>>

\* The same for an exception the except clauses of lines 147 and 172 take and
\* the generator protocol does not (an instance of Exception; in a generator,
\* not a StopIteration), after results whose validation returns.
C12_CaughtExceptionBecomesFail ==
  (/\ propagated # NotRun
   /\ is_Exception(body.exc)
   /\ (body.kind = "generator" => body.exc.type # "StopIteration")
   /\ \A i \in 1..Len(body.yields) : _check_result(body.yields[i]).type # "raised") =>
    /\ propagated = NoException
    /\ results = [i \in 1..Len(body.yields) |-> _check_result(body.yields[i])]
                   \o <<Tuple(<<FAIL, body.exc>>)>>

\* The raw result is a tuple of two items.
IsPair(r) == r.type = "tuple" /\ Len(r.items) = 2

\* The Status a status item stands for: PASS for True, FAIL for False.
NormalStatus(v) == IF v = True THEN PASS ELSE IF v = False THEN FAIL ELSE v

\* The raw result breaks the protocol: it is no tuple, or not of two items, or
\* its status, a boolean taken for its Status, is no Status, or it pairs PASS
\* with an Exception.
Offends(r) ==
  \/ ~IsPair(r)
  \/ NormalStatus(r.items[1]).type # "Status"
  \/ NormalStatus(r.items[1]) = PASS /\ is_Exception(r.items[2])

\* The offending value: the raw result, a boolean status taken for its Status.
Offending(r) ==
  IF IsPair(r) /\ r.items[1].type = "bool"
  THEN Tuple(<<NormalStatus(r.items[1]), r.items[2]>>)
  ELSE r

\* C14 (as claimed): _check_result returns for every raw result, and for one
\* that is no tuple, or a tuple not of two items, or whose status (after the
\* boolean normalization) is no Status, or that pairs PASS with an Exception, it
\* returns (FAIL, APIViolationError) whose `result` is the offending value.
C14_ViolationsBecomeFail ==
  checked # <<>> =>
    /\ checked[1].type # "raised"
    /\ Offends(raw) =>
         /\ IsPair(checked[1])
         /\ checked[1].items[1] = FAIL
         /\ checked[1].items[2].type = "APIViolationError"
         /\ checked[1].items[2].result = Offending(raw)

\* The status of the raw result, if it has one, can be put into a message.
Printable(r) == IsPair(r) => format(r.items[1]).raised = NoException

\* The same for the raw results whose status can be put into a message.
C14_PrintableViolationsBecomeFail ==
  (checked # <<>> /\ Printable(raw)) =>
    /\ checked[1].type # "raised"
    /\ Offends(raw) =>
         /\ IsPair(checked[1])
         /\ checked[1].items[1] = FAIL
         /\ checked[1].items[2].type = "APIViolationError"
         /\ checked[1].items[2].result = Offending(raw)

\* C15: _check_result normalizes a boolean status before it applies the
\* invariant: (True, m) gives (PASS, m) and (False, m) gives (FAIL, m) when m is
\* no Exception, (True, Exception) gives a FAIL violation, and a pair with a
\* Status that keeps the invariant is returned unchanged.
C15_BooleansNormalized ==
  (checked # <<>> /\ IsPair(raw)) =>
    LET status == raw.items[1]
        message == raw.items[2]
    IN /\ (status = True /\ ~is_Exception(message))
            => checked[1] = Tuple(<<PASS, message>>)
       /\ (status = False /\ ~is_Exception(message))
            => checked[1] = Tuple(<<FAIL, message>>)
       /\ (status = True /\ is_Exception(message))
            => /\ checked[1].items[1] = FAIL
               /\ checked[1].items[2].type = "APIViolationError"
       /\ (status.type = "Status" /\ ~(status = PASS /\ is_Exception(message)))
            => checked[1] = raw

\* (True, "ok") has been checked and came back as (PASS, "ok").
C15_Witness ==
  /\ raw = Tuple(<<True, Value("unicode", "ok")>>)
  /\ checked = <<Tuple(<<PASS, Value("unicode", "ok")>>)>>

====
